---------------------------- MODULE Spec2Model ----------------------------
(***************************************************************************)
(* SimpleML: the persistable creators (retrieve_or_create, retrieve,       *)
(* retrieve_dependency, determine_filters, create_new of the six kinds),   *)
(* the class registry, and the versioned tables the creators read and      *)
(* write.                                                                  *)
(***************************************************************************)
EXTENDS Integers, Sequences, FiniteSets, TLC

(* ------------------------------ bounds -------------------------------- *)
\* number of distinct configurations a caller may pass (cfg in 1..MaxCfg)
MaxCfg == 2
\* largest explicit version a caller asks for
MaxVersionArg == 1
\* the rows the calls may add to the tables
MaxRecords == 2
\* number of class objects that may be defined under one class name
MaxImpl == 2

(* ------------------------------ kinds --------------------------------- *)
RawDataset == 1
DatasetPipeline == 2
ProcessedDataset == 3
ProductionPipeline == 4
Model == 5
Metric == 6
Kinds == RawDataset..Metric

Callers == {1, 2}
Names == {"n"}
\* "A" is a class defined at import time, "B" is never defined
RegNames == {"A", "B"}
\* the name of the metaclass whose __new__ registers classes
MetaclassName == "MetaRegistry"
ClassNames == RegNames \cup {MetaclassName}

\* errors a call can end with
TrainingError == "TrainingError"
KeyError == "KeyError: 'registered_name'"
NoneCall == "TypeError: 'NoneType' object is not callable"
MissingArg == "TypeError: create_new() missing argument 'registered_name'"
IntegrityError == "IntegrityError"
\* whatever build_dataframe, fit or score raises
MaterializationError == "MaterializationError"

NilId == <<0, "", 0>>
Id(r) == <<r.kind, r.name, r.version>>
NoFilters == [keys |-> {}, name |-> "", version |-> 0, reg |-> "", hash |-> 0, depid |-> NilId]

VARIABLES registry, regOut, focus, store, pc, req, flt, inst, out, first

vars == <<registry, regOut, focus, store, pc, req, flt, inst, out, first>>

(* ----------------------------- registry ------------------------------- *)
\* Registry.get / get_from_registry: dict.get, None (0) when unbound
Get(rg, class_name) == IF class_name \in DOMAIN rg THEN rg[class_name] ELSE 0

\* an is_registered that holds of every name asked about before
IsRegisteredAnyKey(rg, class_name) == class_name \in DOMAIN rg
\* Registry.is_registered
IsRegistered(rg, class_name) == class_name \in {n \in DOMAIN rg : rg[n] # 0}

\* the duplicate test of Registry.__new__: it looks up cls.__name__, the
\* name of the metaclass, not the name of the class being defined
DuplicateTest(rg, name) == Get(rg, MetaclassName) # 0

\* Registry.__new__: define class `name` (class object impl)
Register(name, impl) ==
    /\ IF DuplicateTest(registry, name)
       THEN /\ registry' = registry
            /\ regOut' = [name |-> name, impl |-> impl, raised |-> TRUE,
                          prev |-> Get(registry, name)]
       ELSE /\ registry' = [registry EXCEPT ![name] = impl]
            /\ regOut' = [name |-> name, impl |-> impl, raised |-> FALSE,
                          prev |-> Get(registry, name)]
    /\ UNCHANGED <<focus, store, pc, req, flt, inst, out, first>>

(* ------------------------------ tables -------------------------------- *)
Table(S, k) == {r \in S : r.kind = k}

\* cls.where(**filters)
Matches(r, f) ==
    /\ ("name" \in f.keys => r.name = f.name)
    /\ ("version" \in f.keys => r.version = f.version)
    /\ ("registered_name" \in f.keys => r.reg = f.reg)
    /\ ("hash_" \in f.keys => r.hash = f.hash)
    /\ ("pipeline_id" \in f.keys => r.dep = f.depid)
    /\ ("model_id" \in f.keys => r.dep = f.depid)
Where(T, f) == {r \in T : Matches(r, f)}

\* order_by(cls.version.asc())
RECURSIVE OrderByVersionAsc(_)
OrderByVersionAsc(M) ==
    IF M = {} THEN <<>>
    ELSE LET r == CHOOSE x \in M : \A y \in M : x.version <= y.version
         IN <<r>> \o OrderByVersionAsc(M \ {r})
\* order_by(cls.version.desc())
RECURSIVE OrderByVersionDesc(_)
OrderByVersionDesc(M) ==
    IF M = {} THEN <<>>
    ELSE LET r == CHOOSE x \in M : \A y \in M : y.version <= x.version
         IN <<r>> \o OrderByVersionDesc(M \ {r})

\* .first(): the first row, or None (the empty sequence)
First(s) == IF s = <<>> THEN <<>> ELSE <<s[1]>>

\* PersistableCreator.retrieve
Retrieve(T, f) == First(OrderByVersionDesc(Where(T, f)))

(* ------------------------------ hashing ------------------------------- *)
\* a fingerprint that leaves the configuration out
HashOfDependency(cfg, dephash) == dephash
\* _hash(): a fingerprint of the configuration and of the dependency's hash
\* (0 for the leaf kind); injective on (cfg, dependency hash)
Hash(cfg, dephash) == dephash * (MaxCfg + 1) + cfg

\* the name a constructed metric carries: the one given, else the one its
\* class hard-codes
MetricName(name) == IF name = "" THEN "m" ELSE name

\* strict's default in determine_filters
DefaultStrict(k) == k \in {RawDataset, ProcessedDataset}
\* a strict that is on whatever the caller passes
StrictAlways(k, kw) == TRUE
\* the strict argument, or its default
Strict(k, kw) == IF kw.strict = "default" THEN DefaultStrict(k) ELSE kw.strict = "T"

\* kwargs.pop('<dependency>_kwargs', {}): absent is the empty dictionary
EmptyKw == [name |-> "", version |-> 0, strict |-> "default", reg |-> "", cfg |-> 0,
            obj |-> <<>>, depkw |-> <<>>, model_id |-> NilId]
DepKw(kw) == IF kw.depkw = <<>> THEN EmptyKw ELSE kw.depkw[1]

\* an object a caller built and did not save
Unsaved(k) == [kind |-> k, name |-> "u", version |-> 0, reg |-> "A", hash |-> 1, dep |-> NilId]

\* a local variable: the value of a call, computed once and used from there
Only(X) == CHOOSE x \in X : TRUE

Failed(e, looked, depth, miss) ==
    [err |-> e, filters |-> NoFilters, dep |-> <<>>, cand |-> <<>>, fitted |-> FALSE,
     looked |-> looked, depth |-> depth, miss |-> miss]

\* a constructed instance with its dependency attached
Instance(k, name, reg, cfg, dep) ==
    [kind |-> k, name |-> name, version |-> 0, reg |-> reg,
     hash |-> Hash(cfg, IF dep = <<>> THEN 0 ELSE dep[1].hash),
     dep |-> IF dep = <<>> THEN NilId ELSE Id(dep[1])]

(* ------------------- determine_filters, by kind ----------------------- *)
RECURSIVE DetermineFilters(_, _, _, _)
RECURSIVE RetrieveDependency(_, _, _, _)

\* a retrieve_dependency that makes a missing dependency up instead of
\* raising
RetrieveDependencyFabricates(dk, dkw, S, rg) ==
    LET d == DetermineFilters(dk, dkw, S, rg)
        r == Retrieve(Table(S, dk), d.filters)
    IN IF d.err # "" THEN Failed(d.err, d.looked, d.depth + 1, d.miss)
       ELSE [err |-> "", filters |-> d.filters,
             dep |-> IF r = <<>> THEN <<Unsaved(dk)>> ELSE r, cand |-> <<>>,
             fitted |-> FALSE, looked |-> d.looked \cup {dk}, depth |-> d.depth + 1,
             miss |-> (r = <<>>)]

\* PersistableCreator.retrieve_dependency
RetrieveDependency(dk, dkw, S, rg) ==
    LET Looked(d, r) ==
            IF d.err # "" THEN Failed(d.err, d.looked, d.depth + 1, d.miss)
            ELSE IF r = <<>> THEN Failed(TrainingError, d.looked \cup {dk}, d.depth + 1, TRUE)
            ELSE [err |-> "", filters |-> d.filters, dep |-> r, cand |-> <<>>,
                  fitted |-> FALSE, looked |-> d.looked \cup {dk}, depth |-> d.depth + 1,
                  miss |-> FALSE]
    IN Only({Looked(d, Retrieve(Table(S, dk), d.filters)) :
                d \in {DetermineFilters(dk, dkw, S, rg)}})

\* a resolution that ignores the object passed and always looks it up
ResolveAlwaysLookup(k, kw, S, rg) == RetrieveDependency(k - 1, DepKw(kw), S, rg)
\* "Check if dependency object was passed", else retrieve_<dependency>
Resolve(k, kw, S, rg) ==
    IF kw.obj # <<>>
    THEN [err |-> "", filters |-> NoFilters, dep |-> kw.obj, cand |-> <<>>, fitted |-> FALSE,
          looked |-> {}, depth |-> 0, miss |-> FALSE]
    ELSE RetrieveDependency(k - 1, DepKw(kw), S, rg)

ByVersion(kw) ==
    [err |-> "",
     filters |-> [NoFilters EXCEPT !.keys = {"name", "version"}, !.name = kw.name,
                                   !.version = kw.version],
     dep |-> <<>>, cand |-> <<>>, fitted |-> FALSE, looked |-> {}, depth |-> 0, miss |-> FALSE]

ByHash(k, name, kw, d, fit) ==
    LET c == Instance(k, name, kw.reg, kw.cfg, d.dep)
    IN [err |-> "",
        filters |-> [NoFilters EXCEPT !.keys = {"name", "registered_name", "hash_"},
                                      !.name = name, !.reg = kw.reg, !.hash = c.hash],
        dep |-> d.dep, cand |-> <<c>>, fitted |-> fit, looked |-> d.looked,
        depth |-> d.depth, miss |-> FALSE]

NoDep == [err |-> "", filters |-> NoFilters, dep |-> <<>>, cand |-> <<>>, fitted |-> FALSE,
          looked |-> {}, depth |-> 0, miss |-> FALSE]

\* RawDatasetCreator.determine_filters
RawDatasetFilters(kw, S, rg) ==
    IF kw.version # 0 THEN ByVersion(kw)
    ELSE IF Strict(RawDataset, kw)
    THEN IF Get(rg, kw.reg) = 0 THEN Failed(NoneCall, {}, 0, FALSE)
         ELSE ByHash(RawDataset, kw.name, kw, NoDep, FALSE)
    ELSE [NoDep EXCEPT !.filters = [NoFilters EXCEPT !.keys = {"name", "registered_name"},
                                                     !.name = kw.name, !.reg = kw.reg]]

\* DatasetPipelineCreator, PipelineCreator, ModelCreator .determine_filters
FittedFilters(k, kw, S, rg) ==
    IF kw.version # 0 THEN ByVersion(kw)
    ELSE LET With(d) ==
                 IF d.err # "" THEN d
                 ELSE IF kw.reg = "" THEN Failed(KeyError, d.looked, d.depth, FALSE)
                 ELSE IF Get(rg, kw.reg) = 0 THEN Failed(NoneCall, d.looked, d.depth, FALSE)
                 ELSE ByHash(k, kw.name, kw, d, Strict(k, kw))
         IN Only({With(d) : d \in {Resolve(k, kw, S, rg)}})

\* DatasetCreator.determine_filters
DatasetFilters(kw, S, rg) ==
    IF kw.version # 0 THEN ByVersion(kw)
    ELSE IF kw.reg = "" THEN Failed(KeyError, {}, 0, FALSE)
    ELSE LET With(d) ==
                 IF d.err # "" THEN d
                 ELSE IF Strict(ProcessedDataset, kw)
                 THEN IF Get(rg, kw.reg) = 0 THEN Failed(NoneCall, d.looked, d.depth, FALSE)
                      ELSE ByHash(ProcessedDataset, kw.name, kw, d, TRUE)
                 ELSE [d EXCEPT !.filters =
                          [NoFilters EXCEPT !.keys = {"name", "registered_name", "pipeline_id"},
                                            !.name = kw.name, !.reg = kw.reg,
                                            !.depid = Id(d.dep[1])]]
         IN Only({With(d) : d \in {Resolve(ProcessedDataset, kw, S, rg)}})

\* a MetricCreator.determine_filters without the {name, model_id} branch
MetricFiltersAlwaysHash(kw, S, rg) ==
    LET d == Resolve(Metric, kw, S, rg)
    IN IF d.err # "" THEN d
       ELSE IF kw.reg = "" THEN Failed(KeyError, d.looked, d.depth, FALSE)
       ELSE IF Get(rg, kw.reg) = 0 THEN Failed(NoneCall, d.looked, d.depth, FALSE)
       ELSE ByHash(Metric, MetricName(kw.name), kw, d, Strict(Metric, kw))
\* MetricCreator.determine_filters
MetricFilters(kw, S, rg) ==
    IF kw.name # "" /\ kw.model_id # NilId
    THEN [NoDep EXCEPT !.filters = [NoFilters EXCEPT !.keys = {"name", "model_id"},
                                                     !.name = kw.name,
                                                     !.depid = kw.model_id]]
    ELSE LET With(d) ==
                 IF d.err # "" THEN d
                 ELSE IF kw.reg = "" THEN Failed(KeyError, d.looked, d.depth, FALSE)
                 ELSE IF Get(rg, kw.reg) = 0 THEN Failed(NoneCall, d.looked, d.depth, FALSE)
                 ELSE ByHash(Metric, MetricName(kw.name), kw, d, Strict(Metric, kw))
         IN Only({With(d) : d \in {Resolve(Metric, kw, S, rg)}})

DetermineFilters(k, kw, S, rg) ==
    CASE k = RawDataset -> RawDatasetFilters(kw, S, rg)
      [] k = ProcessedDataset -> DatasetFilters(kw, S, rg)
      [] k = Metric -> MetricFilters(kw, S, rg)
      [] OTHER -> FittedFilters(k, kw, S, rg)

(* ------------------------- create_new, by kind ------------------------ *)
\* <Kind>Creator.create_new up to and including fit / build_dataframe / score
CreateNew(k, kw, S, rg) ==
    IF kw.reg = "" THEN Failed(MissingArg, {}, 0, FALSE)
    ELSE LET name == IF k = Metric THEN MetricName(kw.name) ELSE kw.name
             With(d) ==
                 IF d.err # "" THEN d
                 ELSE IF Get(rg, kw.reg) = 0 THEN Failed(NoneCall, d.looked, d.depth, FALSE)
                 ELSE [d EXCEPT !.cand = <<Instance(k, name, kw.reg, kw.cfg, d.dep)>>,
                                !.fitted = TRUE]
         IN Only({With(d) : d \in {IF k = RawDataset THEN NoDep ELSE Resolve(k, kw, S, rg)}})

(* ------------------------------- save --------------------------------- *)
\* a numbering by the count of rows of the name, starting from 2
NextVersionByCount(T, name) == 2 + Cardinality({x \in T : x.name = name})
\* save(): the next version of a name, one more than the largest stored
NextVersion(T, name) ==
    LET vs == {r.version : r \in {x \in T : x.name = name}}
    IN IF vs = {} THEN 1 ELSE 1 + (CHOOSE v \in vs : \A w \in vs : w <= v)

\* a table without the constraint
NoConstraint(T, r) == TRUE
\* UniqueConstraint('name', 'version'): may row r be inserted into table T
UniqueConstraint(T, r) == \A x \in T : ~(x.name = r.name /\ x.version = r.version)

(* ------------------------- what callers may pass ----------------------- *)
\* rows saved before the calls modelled here: one row, version 1, of every
\* kind below k - 1, each depending on the one before it
RECURSIVE Chain(_)
Chain(k) ==
    IF k < RawDataset THEN {}
    ELSE LET below == Chain(k - 1)
             dep == {r \in below : r.kind = k - 1}
         IN below \cup {[Instance(k, "n", "A", 1, IF dep = {} THEN <<>>
                                                   ELSE <<CHOOSE r \in dep : TRUE>>)
                          EXCEPT !.version = 1]}

ByNameVersion(n, v) == [EmptyKw EXCEPT !.name = n, !.version = v]

\* <dependency>_kwargs for a dependency of kind dk: nothing, name and
\* version, or name, registered_name, configuration, strict and, below the
\* leaf, the kwargs of its own dependency
DepKws(dk, seq) ==
    (IF seq THEN {EmptyKw} \cup {ByNameVersion(n, v) : n \in Names, v \in 1..MaxVersionArg}
     ELSE {})
    \cup {[EmptyKw EXCEPT !.name = n, !.reg = "A", !.cfg = c, !.strict = s, !.depkw = x] :
            n \in Names, c \in IF seq THEN 1..MaxCfg ELSE {1},
            s \in IF dk = RawDataset \/ (seq /\ dk = ProcessedDataset)
                  THEN {"default", "F"} ELSE {"default"},
            x \in IF dk = RawDataset THEN {<<>>} ELSE {<<ByNameVersion("n", 1)>>}}

\* the dependency a caller names: the object itself (saved or not), or kwargs
DepChoices(k, S, seq) ==
    IF k = RawDataset THEN {[obj |-> <<>>, depkw |-> <<>>]}
    ELSE {[obj |-> <<o>>, depkw |-> <<>>] : o \in Table(S, k - 1) \cup {Unsaved(k - 1)}}
         \cup {[obj |-> <<>>, depkw |-> x] :
                 x \in (IF seq THEN {<<>>} ELSE {})
                       \cup {<<y>> : y \in DepKws(k - 1, seq) \ {EmptyKw}}}

\* registered_name and configuration: a defined class with any
\* configuration, or an undefined class
RegCfg(seq) ==
    {[reg |-> "A", cfg |-> c] : c \in 1..MaxCfg}
    \cup IF seq THEN {[reg |-> "B", cfg |-> 1]} ELSE {}

\* version and strict: an explicit version, or none and strict given
Modes(seq) ==
    {[version |-> 0, strict |-> s] : s \in {"T", "F"}}
    \cup IF seq THEN {[version |-> v, strict |-> "default"] : v \in 1..MaxVersionArg} ELSE {}

\* the keyword arguments of a call of kind k, the kind the callers work on
Requests(k, S, seq) ==
    {[name |-> n, version |-> m.version, strict |-> m.strict, reg |-> g.reg, cfg |-> g.cfg,
      obj |-> d.obj, depkw |-> d.depkw, model_id |-> NilId] :
        n \in IF k = Metric THEN Names \cup {""} ELSE Names,
        m \in Modes(seq), g \in RegCfg(seq), d \in DepChoices(k, S, seq)}
    \cup IF k # Metric THEN {}
         ELSE {[name |-> n, version |-> 0, strict |-> s, reg |-> "A", cfg |-> c,
                obj |-> d.obj, depkw |-> d.depkw, model_id |-> mid] :
                 n \in Names, s \in IF seq THEN {"T", "F"} ELSE {"F"}, c \in 1..MaxCfg,
                 d \in DepChoices(k, S, seq),
                 mid \in {Id(x) : x \in (IF seq THEN Table(S, Model) ELSE {})
                                        \cup {Unsaved(Model)}}}

\* the keyword arguments of a call that makes a dependency for them
FeederRequests(k, S) ==
    {[EmptyKw EXCEPT !.name = "n", !.strict = "T", !.reg = "A", !.cfg = c, !.obj = o] :
        c \in 1..MaxCfg,
        o \in IF k = RawDataset THEN {<<>>} ELSE {<<r>> : r \in Table(S, k - 1)}}

CallsOf(k, S, seq) ==
    IF k = focus THEN Requests(k, S, seq)
    ELSE IF k = focus - 1 THEN FeederRequests(k, S)
    ELSE {}

\* rows of the kinds the callers work on
Working(S) == {r \in S : r.kind \in {focus - 1, focus}}

\* a call may start while the rows saved, and those the calls under way may
\* save, are at most MaxRecords
MayStart(c) ==
    Cardinality(Working(store)) + Cardinality({d \in Callers \ {c} : pc[d] # "idle"})
        < MaxRecords + 1

(* ------------------------------ the calls ------------------------------ *)
NoReq == [entry |-> "", kind |-> 0, kw |-> EmptyKw]
NoRes == [d |-> NoDep, before |-> 0]
NoOut == [err |-> "", rec |-> <<>>, loaded |-> FALSE, created |-> FALSE, persisted |-> FALSE]
NoFirst == [again |-> FALSE, ok |-> FALSE, hash |-> 0, before |-> 0]

\* retrieve_or_create, line 29: determine_filters
Begin(c, k, kw) ==
    LET d == DetermineFilters(k, kw, store, registry)
    IN /\ req' = [req EXCEPT ![c] = [entry |-> "roc", kind |-> k, kw |-> kw]]
       /\ flt' = [flt EXCEPT ![c] =
                    [d |-> d, before |-> Cardinality(Where(Table(store, k), d.filters))]]
       /\ inst' = [inst EXCEPT ![c] = NoDep]
       /\ IF d.err # ""
          THEN /\ pc' = [pc EXCEPT ![c] = "done"]
               /\ out' = [out EXCEPT ![c] = [NoOut EXCEPT !.err = d.err]]
          ELSE /\ pc' = [pc EXCEPT ![c] = "retrieve"]
               /\ out' = [out EXCEPT ![c] = NoOut]

\* a caller calls retrieve_or_create
RetrieveOrCreate(c, seq) ==
    /\ pc[c] = "idle"
    /\ MayStart(c)
    /\ \E k \in Kinds : \E kw \in CallsOf(k, store, seq) : Begin(c, k, kw)
    /\ UNCHANGED <<registry, regOut, focus, store, first>>

\* a caller calls retrieve_or_create a second time with the same arguments
CallAgain(c) ==
    /\ pc[c] = "done"
    /\ req[c].entry = "roc"
    /\ ~first[c].again
    /\ first' = [first EXCEPT ![c] =
                    [again |-> TRUE, ok |-> out[c].rec # <<>>,
                     hash |-> IF out[c].rec # <<>> THEN out[c].rec[1].hash ELSE 0,
                     before |-> flt[c].before]]
    /\ Begin(c, req[c].kind, req[c].kw)
    /\ UNCHANGED <<registry, regOut, focus, store>>

\* a retrieve_or_create that waits for the row instead of creating it
RetrieveStepWaits(c) ==
    /\ pc[c] = "retrieve"
    /\ LET r == Retrieve(Table(store, req[c].kind), flt[c].d.filters)
       IN IF r # <<>>
          THEN /\ pc' = [pc EXCEPT ![c] = "done"]
               /\ out' = [out EXCEPT ![c] = [NoOut EXCEPT !.rec = r, !.loaded = TRUE]]
          ELSE /\ pc' = pc
               /\ out' = out
    /\ UNCHANGED <<registry, regOut, focus, store, req, flt, inst, first>>
\* a retrieve_or_create that never looks for an existing row
RetrieveStepAlwaysCreates(c) ==
    /\ pc[c] = "retrieve"
    /\ pc' = [pc EXCEPT ![c] = "create"]
    /\ UNCHANGED <<registry, regOut, focus, store, req, flt, inst, out, first>>
\* retrieve_or_create, lines 30-38: retrieve, load and return what it found
RetrieveStep(c) ==
    /\ pc[c] = "retrieve"
    /\ LET r == Retrieve(Table(store, req[c].kind), flt[c].d.filters)
       IN IF r # <<>>
          THEN /\ pc' = [pc EXCEPT ![c] = "done"]
               /\ out' = [out EXCEPT ![c] = [NoOut EXCEPT !.rec = r, !.loaded = TRUE]]
          ELSE /\ pc' = [pc EXCEPT ![c] = "create"]
               /\ out' = out
    /\ UNCHANGED <<registry, regOut, focus, store, req, flt, inst, first>>

\* a caller calls create_new itself
CallCreateNew(c, seq) ==
    /\ pc[c] = "idle"
    /\ MayStart(c)
    /\ \E k \in Kinds : \E kw \in CallsOf(k, store, seq) :
         req' = [req EXCEPT ![c] = [entry |-> "create", kind |-> k, kw |-> kw]]
    /\ pc' = [pc EXCEPT ![c] = "create"]
    /\ UNCHANGED <<registry, regOut, focus, store, flt, inst, out, first>>

\* a create_new that inserts a row for the instance before it resolves the
\* dependency
CreateStepSavesBeforeResolve(c) ==
    /\ pc[c] = "create"
    /\ \E ok \in BOOLEAN :
         LET d == CreateNew(req[c].kind, req[c].kw, store, registry)
         IN /\ inst' = [inst EXCEPT ![c] = d]
            /\ IF d.err # ""
               THEN /\ pc' = [pc EXCEPT ![c] = "done"]
                    /\ out' = [out EXCEPT ![c] = [NoOut EXCEPT !.err = d.err,
                                                               !.created = TRUE]]
                    /\ store' = store \cup
                          {[kind |-> req[c].kind, name |-> req[c].kw.name,
                            version |-> NextVersion(Table(store, req[c].kind), req[c].kw.name),
                            reg |-> req[c].kw.reg, hash |-> 0, dep |-> NilId]}
               ELSE IF ~ok
               THEN /\ pc' = [pc EXCEPT ![c] = "done"]
                    /\ out' = [out EXCEPT ![c] = [NoOut EXCEPT !.err = MaterializationError,
                                                               !.created = TRUE]]
                    /\ store' = store
               ELSE /\ pc' = [pc EXCEPT ![c] = "save"]
                    /\ out' = [out EXCEPT ![c] = [NoOut EXCEPT !.created = TRUE]]
                    /\ store' = store
    /\ UNCHANGED <<registry, regOut, focus, req, flt, first>>
\* a create_new that saves the instance before it materializes it
CreateStepSavesFirst(c) ==
    /\ pc[c] = "create"
    /\ \E ok \in BOOLEAN :
         LET d == CreateNew(req[c].kind, req[c].kw, store, registry)
         IN /\ inst' = [inst EXCEPT ![c] = d]
            /\ IF d.err # ""
               THEN /\ pc' = [pc EXCEPT ![c] = "done"]
                    /\ out' = [out EXCEPT ![c] = [NoOut EXCEPT !.err = d.err,
                                                               !.created = TRUE]]
                    /\ store' = store
               ELSE IF ~ok
               THEN /\ pc' = [pc EXCEPT ![c] = "done"]
                    /\ out' = [out EXCEPT ![c] = [NoOut EXCEPT !.err = MaterializationError,
                                                               !.created = TRUE]]
                    /\ store' = store \cup
                          {[d.cand[1] EXCEPT !.version =
                              NextVersion(Table(store, req[c].kind), d.cand[1].name)]}
               ELSE /\ pc' = [pc EXCEPT ![c] = "save"]
                    /\ out' = [out EXCEPT ![c] = [NoOut EXCEPT !.created = TRUE]]
                    /\ store' = store
    /\ UNCHANGED <<registry, regOut, focus, req, flt, first>>
\* create_new up to save(): resolve the dependency, construct, materialize;
\* the materialization (build_dataframe, fit, score) may raise
CreateStep(c) ==
    /\ pc[c] = "create"
    /\ \E ok \in BOOLEAN :
         LET d == CreateNew(req[c].kind, req[c].kw, store, registry)
         IN /\ inst' = [inst EXCEPT ![c] = d]
            /\ IF d.err # ""
               THEN /\ pc' = [pc EXCEPT ![c] = "done"]
                    /\ out' = [out EXCEPT ![c] = [NoOut EXCEPT !.err = d.err,
                                                               !.created = TRUE]]
               ELSE IF ~ok
               THEN /\ pc' = [pc EXCEPT ![c] = "done"]
                    /\ out' = [out EXCEPT ![c] = [NoOut EXCEPT !.err = MaterializationError,
                                                               !.created = TRUE]]
               ELSE /\ pc' = [pc EXCEPT ![c] = "save"]
                    /\ out' = [out EXCEPT ![c] = [NoOut EXCEPT !.created = TRUE]]
    /\ UNCHANGED <<registry, regOut, focus, store, req, flt, first>>

\* save(): read the latest version of the name
AllocVersion(c) ==
    /\ pc[c] = "save"
    /\ inst' = [inst EXCEPT ![c].cand[1].version =
                   NextVersion(Table(store, req[c].kind), inst[c].cand[1].name)]
    /\ pc' = [pc EXCEPT ![c] = "persist"]
    /\ UNCHANGED <<registry, regOut, focus, store, req, flt, out, first>>

\* a save that writes over the rows of the same name
PersistReplaces(c) ==
    /\ pc[c] = "persist"
    /\ LET r == inst[c].cand[1]
       IN /\ store' = {x \in store : ~(x.kind = r.kind /\ x.name = r.name)} \cup {r}
          /\ out' = [out EXCEPT ![c].rec = <<r>>, ![c].persisted = TRUE]
    /\ pc' = [pc EXCEPT ![c] = "done"]
    /\ UNCHANGED <<registry, regOut, focus, req, flt, inst, first>>
\* save(): insert the row; the table's unique constraint may reject it
Persist(c) ==
    /\ pc[c] = "persist"
    /\ LET r == inst[c].cand[1]
       IN IF UniqueConstraint(Table(store, r.kind), r)
          THEN /\ store' = store \cup {r}
               /\ out' = [out EXCEPT ![c].rec = <<r>>, ![c].persisted = TRUE]
          ELSE /\ store' = store
               /\ out' = [out EXCEPT ![c].err = IntegrityError]
    /\ pc' = [pc EXCEPT ![c] = "done"]
    /\ UNCHANGED <<registry, regOut, focus, req, flt, inst, first>>

\* the call returns (or raises) to its caller
Return(c) ==
    /\ pc[c] = "done"
    /\ pc' = [pc EXCEPT ![c] = "idle"]
    /\ req' = [req EXCEPT ![c] = NoReq]
    /\ flt' = [flt EXCEPT ![c] = NoRes]
    /\ inst' = [inst EXCEPT ![c] = NoDep]
    /\ out' = [out EXCEPT ![c] = NoOut]
    /\ first' = [first EXCEPT ![c] = NoFirst]
    /\ UNCHANGED <<registry, regOut, focus, store>>

(* --------------------------- specifications ---------------------------- *)
NoRegOut == [name |-> "", impl |-> 0, raised |-> FALSE, prev |-> 0]

\* nobody is in a call
InitCalls ==
    /\ pc = [c \in Callers |-> "idle"]
    /\ req = [c \in Callers |-> NoReq]
    /\ flt = [c \in Callers |-> NoRes]
    /\ inst = [c \in Callers |-> NoDep]
    /\ out = [c \in Callers |-> NoOut]
    /\ first = [c \in Callers |-> NoFirst]
    /\ regOut = NoRegOut

\* after import: class "A" is defined; the callers work on one kind, and the
\* kinds below its dependency have been saved
Init ==
    /\ registry = [n \in ClassNames |-> IF n = "A" THEN 1 ELSE 0]
    /\ focus \in Kinds
    /\ store = Chain(focus - 2)
    /\ InitCalls

\* callers run concurrently
Next ==
    \E c \in Callers :
        \/ RetrieveOrCreate(c, FALSE)
        \/ RetrieveStep(c)
        \/ CallCreateNew(c, FALSE)
        \/ CreateStep(c)
        \/ AllocVersion(c)
        \/ Persist(c)
        \/ Return(c)

Spec == Init /\ [][Next]_vars

\* one caller, one call after the other
NextSeq ==
    \/ RetrieveOrCreate(1, TRUE)
    \/ CallAgain(1)
    \/ RetrieveStep(1)
    \/ CallCreateNew(1, TRUE)
    \/ CreateStep(1)
    \/ AllocVersion(1)
    \/ Persist(1)
    \/ Return(1)

SpecSeq == Init /\ [][NextSeq]_vars

(* ------------- calls that descend the whole dependency chain ------------ *)
\* rows a run of such calls may add to the chain saved before it
MaxNewRows == 2

\* kwargs for kind k whose <dependency>_kwargs are nested lv levels down:
\* each level names its own dependency by kwargs, the last one by name and
\* version, and a RawDataset has none
RECURSIVE DeepKw(_, _, _)
DeepKw(k, lv, cfg) ==
    IF k = RawDataset THEN [EmptyKw EXCEPT !.name = "n", !.reg = "A", !.cfg = cfg]
    ELSE IF lv = 0 THEN ByNameVersion("n", 1)
    ELSE [EmptyKw EXCEPT !.name = "n", !.reg = "A", !.cfg = cfg, !.strict = "T",
                         !.depkw = <<DeepKw(k - 1, lv - 1, 1)>>]

ChainRequests(k) ==
    {DeepKw(k, lv, cfg) : lv \in 1..(Metric - RawDataset), cfg \in 1..MaxCfg}

\* a caller calls retrieve_or_create with nested dependency kwargs
RetrieveOrCreateChain(c) ==
    /\ pc[c] = "idle"
    /\ Cardinality(store) < focus + MaxNewRows
    /\ \E k \in Kinds : \E kw \in ChainRequests(k) : Begin(c, k, kw)
    /\ UNCHANGED <<registry, regOut, focus, store, first>>

\* class "A" is defined and the chain is saved up to some kind
InitChain ==
    /\ registry = [n \in ClassNames |-> IF n = "A" THEN 1 ELSE 0]
    /\ focus \in Kinds
    /\ store = Chain(focus)
    /\ InitCalls

\* the statements of a call under way
CallSteps(c) == RetrieveStep(c) \/ CreateStep(c) \/ AllocVersion(c) \/ Persist(c)

NextChain ==
    \/ RetrieveOrCreateChain(1)
    \/ RetrieveStep(1)
    \/ CreateStep(1)
    \/ AllocVersion(1)
    \/ Persist(1)
    \/ Return(1)

\* a call that has started runs its statements one after the other
SpecChain == InitChain /\ [][NextChain]_vars /\ WF_vars(CallSteps(1))

\* import time: classes are being defined
InitRegistry ==
    /\ registry = [n \in ClassNames |-> 0]
    /\ focus = RawDataset
    /\ store = {}
    /\ InitCalls

NextRegistry == \E name \in ClassNames : \E impl \in 1..MaxImpl : Register(name, impl)

SpecRegistry == InitRegistry /\ [][NextRegistry]_vars

(* ------------------------------- claims -------------------------------- *)
\* rows of kind k that match the filters f
Count(k, f) == Cardinality(Where(Table(store, k), f))

\* caller c is in a retrieve_or_create call with strict=True and no version
\* whose filters carry a hash
StrictHashCall(c) ==
    /\ req[c].entry = "roc"
    /\ req[c].kw.version = 0
    /\ req[c].kw.strict = "T"
    /\ "hash_" \in flt[c].d.filters.keys

\* caller c has finished the second of two identical calls in sequence
SecondDone(c) == pc[c] = "done" /\ first[c].again /\ first[c].ok /\ StrictHashCall(c)

C2_RaceReconciled ==
    \A c, d \in Callers :
        (/\ c # d /\ pc[c] = "done" /\ pc[d] = "done"
         /\ StrictHashCall(c) /\ StrictHashCall(d)
         /\ req[c].kind = req[d].kind
         /\ flt[c].d.filters = flt[d].d.filters
         /\ flt[c].before = 0 /\ flt[d].before = 0)
        => /\ out[c].rec # <<>> /\ out[d].rec # <<>>
           /\ out[c].rec = out[d].rec
           /\ Count(req[c].kind, flt[c].d.filters) = 1

\* C3: a retrieve_or_create call never ends with the store's uniqueness
\* conflict: the creator retrieves again and returns the row that won.
C3_ConflictRecovered ==
    \A c \in Callers :
        (pc[c] = "done" /\ req[c].entry = "roc") => out[c].err # IntegrityError

\* C4: no two rows of a kind share (name, version), and a save whose (name,
\* version) is already in the table changes nothing and gets a conflict.
NameVersionUnique ==
    \A r1, r2 \in store :
        (r1.kind = r2.kind /\ r1.name = r2.name /\ r1.version = r2.version) => r1 = r2
C4_NameVersionUnique ==
    [][/\ NameVersionUnique /\ NameVersionUnique'
       /\ \A c \in Callers :
            (pc[c] = "persist" /\ pc'[c] = "done") =>
                LET r == inst[c].cand[1]
                IN IF \E x \in store : x.kind = r.kind /\ x.name = r.name
                                        /\ x.version = r.version
                   THEN store' = store /\ out'[c].err = IntegrityError
                   ELSE store' = store \cup {r} /\ out'[c].err = ""]_vars

C4_Witness ==
    \E c \in Callers :
        /\ pc[c] = "done" /\ out[c].err = IntegrityError
        /\ \E x \in store : /\ Id(x) = Id(inst[c].cand[1])
                            /\ x.hash # inst[c].cand[1].hash

\* C5: a row saved by create_new with no explicit version asked for has
\* version 1 when the table has no row of its name, and otherwise one more
\* than the largest version of its name; so it is larger than every version
\* of its name saved before.
C5_VersionAllocation ==
    [][\A c \in Callers :
         (pc[c] = "persist" /\ pc'[c] = "done" /\ store' # store /\ req[c].kw.version = 0) =>
             LET r == inst[c].cand[1]
                 same == {x \in Table(store, r.kind) : x.name = r.name}
             IN /\ store' = store \cup {r}
                /\ same = {} => r.version = 1
                /\ same # {} => /\ \E x \in same : r.version = x.version + 1
                                /\ \A x \in same : x.version < r.version]_vars

C5_Witness ==
    \E c \in Callers :
        /\ pc[c] = "done" /\ out[c].persisted /\ req[c].kw.version = 0
        /\ out[c].rec[1].version = 2
        /\ \E x \in Table(store, req[c].kind) : x.name = out[c].rec[1].name /\ x.version = 1

\* the filter sets the creators build, over the values in the tables and
\* values in none
FilterSamples ==
    LET names == {r.name : r \in store} \cup {"x"}
        versions == 0..(MaxRecords + 2)
        regs == RegNames
        hashes == {r.hash : r \in store} \cup {0}
        ids == {r.dep : r \in store} \cup {NilId}
    IN {[NoFilters EXCEPT !.keys = {"name", "version"}, !.name = n, !.version = v] :
            n \in names, v \in versions}
       \cup {[NoFilters EXCEPT !.keys = {"name", "registered_name", "hash_"},
                               !.name = n, !.reg = g, !.hash = h] :
            n \in names, g \in regs, h \in hashes}
       \cup {[NoFilters EXCEPT !.keys = {"name", "registered_name"}, !.name = n, !.reg = g] :
            n \in names, g \in regs}
       \cup {[NoFilters EXCEPT !.keys = {"name", "registered_name", "pipeline_id"},
                               !.name = n, !.reg = g, !.depid = i] :
            n \in names, g \in regs, i \in ids}
       \cup {[NoFilters EXCEPT !.keys = {"name", "model_id"}, !.name = n, !.depid = i] :
            n \in names, i \in ids}

\* C6: for every table and every filter set, retrieve returns a row that
\* matches all filters and whose version is the largest among the rows that
\* match, and returns nothing exactly when no row matches.
C6_RetrieveNewest ==
    \A k \in Kinds \cap {focus - 1, focus} : \A f \in FilterSamples :
        LET got == Retrieve(Table(store, k), f)
            matching == {r \in store : r.kind = k /\ Matches(r, f)}
        IN /\ (got = <<>>) <=> (matching = {})
           /\ got # <<>> => /\ got[1] \in matching
                            /\ \A r \in matching : r.version <= got[1].version

C6_Witness ==
    \E c \in Callers :
        /\ pc[c] = "done" /\ req[c].entry = "roc" /\ ~out[c].created /\ out[c].rec # <<>>
        /\ \E r \in Where(Table(store, req[c].kind), flt[c].d.filters) :
              r.version < out[c].rec[1].version

\* C7: defining a class under a name that is already bound raises, and the
\* registry still returns the class bound first.
C7_RegistrationUnique ==
    (regOut.name # "" /\ regOut.prev # 0) =>
        regOut.raised /\ Get(registry, regOut.name) = regOut.prev

\* the outcome d of resolving the dependency of a call of kind k
Resolved(d, k, S) ==
    /\ d.miss <=> d.err = TrainingError
    /\ (d.err = "" /\ d.looked # {}) =>
          /\ d.dep # <<>>
          /\ d.dep[1] \in Table(S, k - 1)
          /\ k - 1 \in d.looked

\* C8: retrieve_dependency returns a row that is in the dependency kind's
\* table, raises TrainingError exactly when its retrieve finds no row, and
\* leaves the tables as they were.
C8_RetrieveDependency ==
    [][\A c \in Callers :
         /\ (pc[c] \in {"idle", "done"} /\ pc'[c] \in {"retrieve", "done"}) =>
                store' = store /\ Resolved(flt'[c].d, req'[c].kind, store)
         /\ (pc[c] = "create" /\ pc'[c] \in {"save", "done"}) =>
                store' = store /\ Resolved(inst'[c], req[c].kind, store)]_vars

C8_Witness ==
    \E c \in Callers :
        /\ pc[c] = "done" /\ out[c].err = TrainingError
        /\ req[c].kw.obj = <<>> /\ req[c].kw.depkw # <<>>
        /\ Table(store, req[c].kind - 1) # {}

\* C9: a Metric call with no model object passed, made while the models
\* table is empty, ends with TrainingError whatever model_kwargs it was given.
C9_MetricNeedsModel ==
    \A c \in Callers :
        (/\ pc[c] = "done" /\ req[c].kind = Metric
         /\ req[c].kw.obj = <<>> /\ Table(store, Model) = {})
        => out[c].err = TrainingError

\* C10: when the dependency object is passed, neither determine_filters nor
\* create_new queries the dependency's creator, and the object passed is the
\* dependency of the candidate, of the instance built and of the row saved.
C10_ObjectBypassesLookup ==
    \A c \in Callers :
        (req[c].kind >= DatasetPipeline /\ req[c].kw.obj # <<>>) =>
            LET o == req[c].kw.obj[1]
            IN /\ flt[c].d.looked = {} /\ flt[c].d.depth = 0
               /\ inst[c].looked = {} /\ inst[c].depth = 0
               /\ flt[c].d.cand # <<>> => flt[c].d.cand[1].dep = Id(o)
               /\ inst[c].cand # <<>> => inst[c].cand[1].dep = Id(o)
               /\ out[c].persisted => out[c].rec[1].dep = Id(o)

C10_Witness ==
    \E c \in Callers :
        /\ pc[c] = "done" /\ req[c].entry = "roc" /\ req[c].kind = Metric
        /\ req[c].kw.obj # <<>> /\ req[c].kw.obj[1] \in store
        /\ flt[c].d.cand # <<>> /\ out[c].persisted

\* C11: a retrieve_or_create call whose retrieve finds a row loads and
\* returns that row, never enters create_new and leaves the tables as they
\* were; one whose retrieve finds none enters create_new, once, and a row it
\* returns is a row create_new saved in the kind's table.
C11_RetrieveOrCreateUniform ==
    [][\A c \in Callers :
         /\ (pc[c] = "retrieve" /\ pc'[c] # "retrieve") =>
               LET r == Retrieve(Table(store, req[c].kind), flt[c].d.filters)
               IN /\ store' = store
                  /\ r # <<>> => /\ pc'[c] = "done"
                                 /\ out'[c].rec = r /\ out'[c].loaded
                                 /\ ~out'[c].created /\ ~out'[c].persisted
                  /\ r = <<>> => pc'[c] = "create" /\ ~out[c].created
         /\ (req'[c].entry = "roc" /\ pc'[c] = "create") => pc[c] \in {"retrieve", "create"}
         /\ (req'[c].entry = "roc" /\ pc'[c] = "done" /\ out'[c].created
                 /\ out'[c].rec # <<>>) =>
               /\ out'[c].persisted
               /\ out'[c].rec[1] \in Table(store', req'[c].kind)
               /\ pc[c] = "persist" => out'[c].rec[1] \notin store]_vars

C11_Witness ==
    \E c, d \in Callers :
        /\ pc[c] = "done" /\ req[c].entry = "roc" /\ out[c].created /\ out[c].persisted
        /\ pc[d] = "done" /\ req[d].entry = "roc" /\ out[d].loaded
        /\ out[d].rec = out[c].rec

\* C12: a call made with a registered_name bound to no class never ends with
\* the error of calling None: the value Registry.get returned is checked
\* before it is called.
C12_UnregisteredChecked ==
    \A c \in Callers :
        (/\ pc[c] = "done" /\ req[c].kw.reg # ""
         /\ ~IsRegistered(registry, req[c].kw.reg))
        => out[c].err # NoneCall

\* the row that is version 1 of the name asked for by caller c, when it is
\* the only row of that name saved before the call and was built with the
\* registered_name and dependency of the call and another configuration
OnlyVersionOne(c) ==
    LET f == flt[c].d.filters
        T == Table(store, req[c].kind)
        made == IF out[c].persisted THEN {out[c].rec[1]} ELSE {}
    IN {x \in T \ made :
          /\ {y \in T \ made : y.name = f.name} = {x}
          /\ \E cfg \in (1..MaxCfg) \ {req[c].kw.cfg} :
                x = [Instance(req[c].kind, f.name, f.reg, cfg, flt[c].d.dep)
                       EXCEPT !.version = 1]}

\* C13: when version 1 is the only row of a name, a strict retrieve_or_create
\* with the same name, registered_name and dependency and another
\* configuration saves a new row with version 2 and a hash other than version
\* 1's, unless materializing it raises, and retrieve by name and version 1
\* still returns the first row.
C13_ConfigChangeNewVersion ==
    \A c \in Callers :
        (pc[c] = "done" /\ StrictHashCall(c) /\ out[c].err # MaterializationError) =>
            \A x \in OnlyVersionOne(c) :
                /\ out[c].err = "" /\ out[c].created /\ out[c].persisted
                /\ out[c].rec[1].version = 2
                /\ out[c].rec[1].hash # x.hash
                /\ out[c].rec[1].hash = flt[c].d.filters.hash
                /\ out[c].rec[1] \in store
                /\ Retrieve(Table(store, req[c].kind),
                            ByVersion(ByNameVersion(x.name, 1)).filters) = <<x>>

C13_Witness ==
    \E c \in Callers :
        /\ pc[c] = "done" /\ StrictHashCall(c) /\ req[c].kind = Model
        /\ OnlyVersionOne(c) # {}
        /\ out[c].persisted /\ out[c].rec[1].version = 2

\* C14: the tables are append-only: every row in a table is in it, with the
\* same name, version, registered_name, hash and dependency, after every step
\* of every call.
C14_AppendOnly == [][store \subseteq store']_vars

C14_Witness ==
    \E c, d \in Callers :
        /\ c # d /\ pc[c] = "done" /\ pc[d] = "done"
        /\ out[c].persisted /\ out[c].rec[1].version = 1 /\ out[c].rec[1] \in store
        /\ out[d].persisted /\ out[d].rec[1].version = 2
        /\ out[d].rec[1].kind = out[c].rec[1].kind
        /\ out[d].rec[1].name = out[c].rec[1].name

\* C15: get returns the class bound to a name by the last class definition
\* that succeeded and None for a name never bound, is_registered holds of
\* exactly the names for which get is not None, and a name once registered
\* stays registered.
C15_LookupsAgree ==
    [][\A n \in ClassNames :
         /\ IsRegistered(registry', n) <=> (Get(registry', n) # 0)
         /\ IsRegistered(registry, n) => IsRegistered(registry', n)
         /\ (regOut'.name = n /\ ~regOut'.raised) => Get(registry', n) = regOut'.impl
         /\ (regOut'.name # n \/ regOut'.raised) => Get(registry', n) = Get(registry, n)]_vars

C15_Witness ==
    \E n, m \in ClassNames :
        /\ regOut.name = n /\ ~regOut.raised
        /\ IsRegistered(registry, n) /\ Get(registry, n) = regOut.impl
        /\ ~IsRegistered(registry, m) /\ Get(registry, m) = 0

\* C16: for every kind, determine_filters called with a version returns the
\* filters {name, version} with the values given, and on that path resolves no
\* dependency, looks up no class and builds no instance to hash.
C16_VersionFilter ==
    \A c \in Callers :
        (req[c].entry = "roc" /\ req[c].kw.version # 0) =>
            /\ flt[c].d.err = ""
            /\ flt[c].d.filters = ByVersion(req[c].kw).filters
            /\ flt[c].d.looked = {} /\ flt[c].d.depth = 0
            /\ flt[c].d.cand = <<>>

\* caller c is in a retrieve_or_create call in loose mode (strict false, no
\* version) whose determine_filters returned
LooseCall(c) ==
    /\ req[c].entry = "roc"
    /\ req[c].kw.version = 0
    /\ \/ req[c].kw.strict = "F"
       \/ req[c].kw.strict = "default" /\ ~DefaultStrict(req[c].kind)
    /\ flt[c].d.err = ""

\* Metric's determine_filters was given both name and model_id
MetricKeyCall(c) ==
    req[c].kind = Metric /\ req[c].kw.name # "" /\ req[c].kw.model_id # NilId

\* C17 as stated: in loose mode the filters of every kind are {name,
\* registered_name} or a natural key, and carry no hash.
C17_LooseNoHash ==
    \A c \in Callers :
        LooseCall(c) =>
            /\ "hash_" \notin flt[c].d.filters.keys
            /\ flt[c].d.filters.keys \in {{"name", "registered_name"},
                                          {"name", "registered_name", "pipeline_id"},
                                          {"name", "model_id"}}

\* C17 amended: in loose mode RawDataset filters on {name, registered_name},
\* ProcessedDataset on {name, registered_name, pipeline_id}, Metric given
\* name and model_id on {name, model_id}, none of them building an instance
\* or hashing; DatasetPipeline, ProductionPipeline, Model, and Metric
\* otherwise filter on {name, registered_name, hash_}, the hash being that of
\* a candidate built and not fitted or scored.
C17_LooseFilters ==
    \A c \in Callers :
        LooseCall(c) =>
            LET f == flt[c].d.filters
                k == req[c].kind
            IN /\ k = RawDataset =>
                    f.keys = {"name", "registered_name"} /\ flt[c].d.cand = <<>>
               /\ k = ProcessedDataset =>
                    /\ f.keys = {"name", "registered_name", "pipeline_id"}
                    /\ f.depid = Id(flt[c].d.dep[1]) /\ flt[c].d.cand = <<>>
               /\ MetricKeyCall(c) =>
                    /\ f.keys = {"name", "model_id"} /\ f.depid = req[c].kw.model_id
                    /\ flt[c].d.cand = <<>>
               /\ (k \in {DatasetPipeline, ProductionPipeline, Model, Metric}
                     /\ ~MetricKeyCall(c)) =>
                    /\ f.keys = {"name", "registered_name", "hash_"}
                    /\ flt[c].d.cand # <<>> /\ f.hash = flt[c].d.cand[1].hash
                    /\ ~flt[c].d.fitted
               /\ f.name = (IF k = Metric THEN MetricName(req[c].kw.name) ELSE req[c].kw.name)
               /\ "registered_name" \in f.keys => f.reg = req[c].kw.reg

C17_Witness ==
    \E c \in Callers :
        /\ LooseCall(c) /\ req[c].kind = Model /\ pc[c] = "done"
        /\ "hash_" \in flt[c].d.filters.keys /\ ~flt[c].d.fitted
        /\ out[c].loaded

\* caller c is in a retrieve_or_create call in strict mode (strict true, no
\* version) whose determine_filters returned, Metric's {name, model_id} path
\* apart
StrictCall(c) ==
    /\ req[c].entry = "roc"
    /\ req[c].kw.version = 0
    /\ \/ req[c].kw.strict = "T"
       \/ req[c].kw.strict = "default" /\ DefaultStrict(req[c].kind)
    /\ flt[c].d.err = ""
    /\ ~MetricKeyCall(c)

\* C18: in strict mode determine_filters of every kind builds a candidate
\* with the dependency resolved, materializes it (build_dataframe, fit,
\* score) and returns {name, registered_name, hash_} with the candidate's
\* hash; in loose mode it materializes nothing.
C18_StrictMaterializes ==
    \A c \in Callers :
        /\ StrictCall(c) =>
              /\ flt[c].d.cand # <<>>
              /\ flt[c].d.fitted
              /\ flt[c].d.filters.keys = {"name", "registered_name", "hash_"}
              /\ flt[c].d.filters.hash = flt[c].d.cand[1].hash
              /\ flt[c].d.cand[1].dep = (IF flt[c].d.dep = <<>> THEN NilId
                                          ELSE Id(flt[c].d.dep[1]))
        /\ LooseCall(c) => ~flt[c].d.fitted

\* C19: MetricCreator.determine_filters given both name and model_id returns
\* the filters {name, model_id} with the values given, whatever strict is,
\* and resolves no model, builds no metric and computes no hash; otherwise,
\* when it returns, the filters are {name, registered_name, hash_} with the
\* name and the hash of the metric it built.
C19_MetricFilters ==
    \A c \in Callers :
        (req[c].entry = "roc" /\ req[c].kind = Metric) =>
            LET d == flt[c].d
            IN IF MetricKeyCall(c)
               THEN /\ d.err = ""
                    /\ d.filters = [NoFilters EXCEPT !.keys = {"name", "model_id"},
                                                     !.name = req[c].kw.name,
                                                     !.depid = req[c].kw.model_id]
                    /\ d.looked = {} /\ d.depth = 0 /\ d.dep = <<>>
                    /\ d.cand = <<>> /\ ~d.fitted
               ELSE d.err = "" =>
                    /\ d.cand # <<>>
                    /\ d.filters = [NoFilters EXCEPT
                                      !.keys = {"name", "registered_name", "hash_"},
                                      !.name = d.cand[1].name,
                                      !.reg = req[c].kw.reg,
                                      !.hash = d.cand[1].hash]

C19_Witness ==
    \E c \in Callers :
        /\ pc[c] = "done" /\ req[c].entry = "roc" /\ MetricKeyCall(c)
        /\ req[c].kw.strict = "T"
        /\ out[c].loaded /\ out[c].rec[1].dep = req[c].kw.model_id

\* C20: when the materialization step of create_new raises, the call ends
\* there with that error: it is not run again, no row is saved and no table
\* is changed by any step of the call.
C20_MaterializationFailure ==
    [][\A c \in Callers :
         /\ (pc[c] = "create" /\ out'[c].err = MaterializationError) =>
               /\ pc'[c] = "done" /\ store' = store
               /\ out'[c].rec = <<>> /\ ~out'[c].persisted
         /\ (pc[c] = "done" /\ out[c].err = MaterializationError /\ pc'[c] # "done") =>
               /\ store' = store
               /\ pc'[c] = "idle" \/ (pc'[c] = "retrieve" /\ first'[c].again)
         /\ (pc[c] # pc'[c] /\ pc'[c] \in {"retrieve", "create"}) => store' = store
         /\ pc'[c] \in {"save", "persist"} => out'[c].err = ""]_vars

C20_Witness ==
    \E c \in Callers :
        /\ pc[c] = "done" /\ out[c].err = MaterializationError
        /\ req[c].entry = "roc" /\ req[c].kind = DatasetPipeline
        /\ inst[c].cand # <<>> /\ inst[c].cand[1] \notin store
        /\ ~out[c].persisted

\* C21: every row of a kind other than RawDataset refers to a row that is in
\* the table of the kind just below it, and a RawDataset row refers to none.
C21_NoDanglingDependency ==
    \A r \in store :
        IF r.kind = RawDataset THEN r.dep = NilId
        ELSE \E x \in Table(store, r.kind - 1) : Id(x) = r.dep

\* the keyword arguments determine_filters passes to the constructor of the
\* instance it hashes: name and what is left in kwargs once its own
\* parameters (name, version, strict; name, model_id, strict for Metric) are
\* taken and the dependency and registered_name are popped; RawDataset reads
\* registered_name with get and leaves it in
FilterCtorArgs(k, kw) ==
    {"config"}
    \cup (IF kw.name # "" THEN {"name"} ELSE {})
    \cup (IF k = RawDataset /\ kw.reg # "" THEN {"registered_name"} ELSE {})
    \cup (IF k = Metric /\ kw.version # 0 THEN {"version"} ELSE {})

\* the keyword arguments create_new passes to the constructor of the instance
\* it saves: all kwargs of the call but registered_name and the dependency
CreateCtorArgs(k, kw) ==
    {"config"}
    \cup (IF kw.name # "" THEN {"name"} ELSE {})
    \cup (IF kw.strict # "default" THEN {"strict"} ELSE {})
    \cup (IF kw.version # 0 THEN {"version"} ELSE {})
    \cup (IF k = Metric /\ kw.model_id # NilId THEN {"model_id"} ELSE {})

\* C22: in a retrieve_or_create call with no version that saves a row, the
\* hash determine_filters put in the filters is the hash of the row saved,
\* and the instance hashed and the instance saved were constructed with the
\* same arguments, given the same dependency and materialized alike.
C22_FilterHashIsSavedHash ==
    \A c \in Callers :
        (/\ pc[c] = "done" /\ req[c].entry = "roc" /\ req[c].kw.version = 0
         /\ out[c].persisted /\ flt[c].d.cand # <<>>)
        => /\ out[c].rec[1].hash = flt[c].d.filters.hash
           /\ FilterCtorArgs(req[c].kind, req[c].kw) = CreateCtorArgs(req[c].kind, req[c].kw)
           /\ flt[c].d.dep = inst[c].dep
           /\ flt[c].d.fitted = inst[c].fitted


\* C23: in a retrieve_or_create call given dependency lookup parameters that
\* saves a row, the dependency create_new attached to the row is the record
\* determine_filters resolved for the lookup hash, whatever other callers
\* saved in between.
C23_SameDependencyTwice ==
    \A c \in Callers :
        (/\ pc[c] = "done" /\ req[c].entry = "roc" /\ out[c].persisted
         /\ req[c].kw.obj = <<>> /\ req[c].kw.depkw # <<>>
         /\ flt[c].d.dep # <<>>)
        => /\ inst[c].dep = flt[c].d.dep
           /\ out[c].rec[1].dep = Id(flt[c].d.dep[1])


\* caller c takes a step of its call
Stepped(c) == <<pc[c], req[c], first[c]>> # <<pc'[c], req'[c], first'[c]>>

\* C24: a call that fails with the missing-dependency error has written
\* nothing: the step that raises it comes from determine_filters or from the
\* start of create_new, never from save(), it leaves every table unchanged,
\* and so does every earlier step of the call, the insert of save() being
\* the only step that writes.
C24_MissingDependencyNoWrite ==
    [][\A c \in Callers :
         /\ (Stepped(c) /\ pc[c] # "persist") => store' = store
         /\ (Stepped(c) /\ pc'[c] = "done" /\ out'[c].err = TrainingError)
            => /\ pc[c] \in {"idle", "done", "create"}
               /\ ~out'[c].persisted
               /\ store' = store]_vars

\* a create_new found no dependency while the tables hold rows
C24_Witness ==
    \E c \in Callers :
        /\ pc[c] = "done" /\ out[c].err = TrainingError /\ out[c].created
        /\ req[c].kw.depkw # <<>>
        /\ store # {}


\* the descent recorded in a result for kind k: at most k - 1 levels, and
\* only tables of the kinds just below k were queried
DescentBelow(k, d) ==
    /\ d.depth <= k - RawDataset
    /\ d.depth <= Metric - RawDataset
    /\ d.looked \subseteq (k - d.depth)..(k - 1)

\* C25: every retrieve_or_create call ends, with a record or an error, and
\* its dependency resolution only goes down the chain of kinds, one kind per
\* level, at most five levels below the kind requested.
C25_Terminates ==
    /\ [](\A c \in Callers :
            req[c].entry = "roc"
            => /\ DescentBelow(req[c].kind, flt[c].d)
               /\ DescentBelow(req[c].kind, inst[c]))
    /\ \A c \in Callers :
         (pc[c] \in {"retrieve", "create", "save", "persist"})
            ~> (pc[c] = "done" /\ (out[c].rec # <<>> \/ out[c].err # ""))

\* a Metric call went down to the RawDataset table and returned a record
C25_Witness ==
    \E c \in Callers :
        /\ pc[c] = "done" /\ req[c].entry = "roc" /\ req[c].kind = Metric
        /\ flt[c].d.depth = Metric - RawDataset
        /\ flt[c].d.looked = RawDataset..Model
        /\ out[c].rec # <<>>

=============================================================================
